---- MODULE Spec2Model ----
(***************************************************************************)
(* ArchWay file server (src/monitor.py): the filter policy, the directory  *)
(* scan with its sort, the per-request configuration load and the routing  *)
(* decision of do_GET.                                                     *)
(*                                                                         *)
(* Strings are sequences of one-character strings, so that lower(),        *)
(* lstrip(), endswith(), suffix and the path handling are computed the way *)
(* the code computes them.                                                 *)
(***************************************************************************)
EXTENDS Integers, Sequences, FiniteSets, TLC

VARIABLES fs, cfgFile, startupConfig, config, request, response

vars == <<fs, cfgFile, startupConfig, config, request, response>>

----------------------------------------------------------------------------
(* Characters: the printable ASCII range, code points 32..126 in order;     *)
(* the three characters a TLA+ string cannot hold are spelled out.         *)

Ascii == <<" ", "!", "dquote", "#", "$", "%", "&", "'", "(", ")", "*", "+", ",", "-", ".", "/", "0", "1", "2", "3", "4", "5", "6", "7", "8", "9", ":", ";", "<", "=", ">", "?", "@", "A", "B", "C", "D", "E", "F", "G", "H", "I", "J", "K", "L", "M", "N", "O", "P", "Q", "R", "S", "T", "U", "V", "W", "X", "Y", "Z", "[", "backslash", "]", "^", "_", "backtick", "a", "b", "c", "d", "e", "f", "g", "h", "i", "j", "k", "l", "m", "n", "o", "p", "q", "r", "s", "t", "u", "v", "w", "x", "y", "z", "{", "|", "}", "~">>

Range(s) == {s[i] : i \in 1..Len(s)}

OrdTable == [c \in Range(Ascii) |-> 31 + (CHOOSE i \in 1..Len(Ascii) : Ascii[i] = c)]

Ord(c) == OrdTable[c]

Chr(n) == Ascii[n - 31]

(* str.lower() on ASCII text: 'A'..'Z' (65..90) move up by 32.              *)
lower(s) == [i \in 1..Len(s) |-> IF Ord(s[i]) \in 65..90 THEN Chr(Ord(s[i]) + 32) ELSE s[i]]

startswith(s, p) == Len(s) >= Len(p) /\ SubSeq(s, 1, Len(p)) = p

endswith(s, p) == Len(s) >= Len(p) /\ SubSeq(s, Len(s) - Len(p) + 1, Len(s)) = p

(* s.lstrip(c): drop every leading occurrence of the character c.           *)
RECURSIVE lstrip(_, _)
lstrip(s, c) == IF s # <<>> /\ Head(s) = c THEN lstrip(Tail(s), c) ELSE s

RECURSIVE rstrip(_, _)
rstrip(s, c) == IF s # <<>> /\ s[Len(s)] = c THEN rstrip(SubSeq(s, 1, Len(s) - 1), c) ELSE s

strip(s, c) == rstrip(lstrip(s, c), c)

(* s.rfind(c), 1-based; 0 when c does not occur.                            *)
rfind(s, c) == IF \E i \in 1..Len(s) : s[i] = c
               THEN CHOOSE i \in 1..Len(s) : s[i] = c /\ \A j \in (i + 1)..Len(s) : s[j] # c
               ELSE 0

(* s.find(c), 1-based; 0 when c does not occur.                             *)
find(s, c) == IF \E i \in 1..Len(s) : s[i] = c
              THEN CHOOSE i \in 1..Len(s) : s[i] = c /\ \A j \in 1..(i - 1) : s[j] # c
              ELSE 0

(* s.split(c, 1)[0]                                                         *)
before(s, c) == IF find(s, c) = 0 THEN s ELSE SubSeq(s, 1, find(s, c) - 1)

(* s.split(c): the list of pieces between occurrences of c.                 *)
RECURSIVE split(_, _)
split(s, c) == IF find(s, c) = 0 THEN <<s>>
               ELSE <<SubSeq(s, 1, find(s, c) - 1)>> \o split(SubSeq(s, find(s, c) + 1, Len(s)), c)

(* Python's ordering of str: lexicographic by code point, a proper prefix  *)
(* first.                                                                  *)
RECURSIVE StrLess(_, _)
StrLess(a, b) == IF b = <<>> THEN FALSE
                 ELSE IF a = <<>> THEN TRUE
                 ELSE IF Ord(Head(a)) # Ord(Head(b)) THEN Ord(Head(a)) < Ord(Head(b))
                 ELSE StrLess(Tail(a), Tail(b))

(* PurePath.suffix: the part of the name from its last '.', unless that    *)
(* dot is the first or the last character.                                 *)
suffix(name) == IF 1 < rfind(name, ".") /\ rfind(name, ".") < Len(name)
                THEN SubSeq(name, rfind(name, "."), Len(name))
                ELSE <<>>

Reverse(s) == [i \in 1..Len(s) |-> s[Len(s) + 1 - i]]

----------------------------------------------------------------------------
(* Names used by the configuration defaults and by the sample trees.       *)

n_css == <<"c", "s", "s">>
n_js == <<"j", "s">>
n_pycache == <<"_", "_", "p", "y", "c", "a", "c", "h", "e", "_", "_">>
n_git == <<".", "g", "i", "t">>
n_node_modules == <<"n", "o", "d", "e", "_", "m", "o", "d", "u", "l", "e", "s">>
n_accounts_txt == <<"a", "c", "c", "o", "u", "n", "t", "s", ".", "t", "x", "t">>
n_manager_py == <<"m", "a", "n", "a", "g", "e", "r", ".", "p", "y">>
n_isos_html == <<"i", "s", "o", "s", ".", "h", "t", "m", "l">>
n_server_py == <<"s", "e", "r", "v", "e", "r", ".", "p", "y">>
n_config_json == <<"c", "o", "n", "f", "i", "g", ".", "j", "s", "o", "n">>
n_gitignore == <<".", "g", "i", "t", "i", "g", "n", "o", "r", "e">>
n_README_md == <<"R", "E", "A", "D", "M", "E", ".", "m", "d">>
n_LICENSE == <<"L", "I", "C", "E", "N", "S", "E">>
n_index_html == <<"i", "n", "d", "e", "x", ".", "h", "t", "m", "l">>
n_index_htm == <<"i", "n", "d", "e", "x", ".", "h", "t", "m">>
n_monitor_py == <<"m", "o", "n", "i", "t", "o", "r", ".", "p", "y">>
x_pyc == <<".", "p", "y", "c">>
x_log == <<".", "l", "o", "g">>
x_LOG == <<".", "L", "O", "G">>
x_tmp == <<".", "t", "m", "p">>
x_swp == <<".", "s", "w", "p">>
n_apple == <<"a", "p", "p", "l", "e">>
n_APPLE == <<"A", "P", "P", "L", "E">>
n_Banana == <<"B", "a", "n", "a", "n", "a">>
n_x_LOG == <<"x", ".", "L", "O", "G">>
n_env == <<".", "e", "n", "v">>
n_docs == <<"d", "o", "c", "s">>
n_Album == <<"A", "l", "b", "u", "m">>
n_gone == <<"g", "o", "n", "e">>
n_y_log == <<"y", ".", "l", "o", "g">>
n_a_txt == <<"a", ".", "t", "x", "t">>
n_b_log == <<"b", ".", "l", "o", "g">>
n_app_js == <<"a", "p", "p", ".", "j", "s">>
n_HEAD == <<"H", "E", "A", "D">>
n_missing_txt == <<"m", "i", "s", "s", "i", "n", "g", ".", "t", "x", "t">>

----------------------------------------------------------------------------
(* Directory entries as pathlib sees them.  kind is what stat() reports    *)
(* after following symlinks: "dir", "file", "other" (a FIFO, socket or     *)
(* device: neither is_dir() nor is_file()) or "broken" (a dangling         *)
(* symlink: is_dir() and is_file() are False and stat() raises             *)
(* FileNotFoundError).  children is the enumeration order of iterdir().    *)

File(name, size, mtime) ==
    [name |-> name, kind |-> "file", size |-> size, mtime |-> mtime, children |-> <<>>]

Dir(name, mtime, children) ==
    [name |-> name, kind |-> "dir", size |-> 0, mtime |-> mtime, children |-> children]

Other(name, kind, mtime) ==
    [name |-> name, kind |-> kind, size |-> 0, mtime |-> mtime, children |-> <<>>]

is_dir(item) == item.kind = "dir"

is_file(item) == item.kind = "file"

----------------------------------------------------------------------------
(* Config.__init__ and Config.load_config                                  *)

(* base_folder is "cwd", the working directory config.json is read from,  *)
(* or the name of another place a configuration file sends the server to.  *)
DefaultConfig ==
    [base_folder |-> "cwd",
     ignore_folders |-> {n_css, n_js, n_pycache, n_git, n_node_modules},
     ignore_files |-> {n_accounts_txt, n_manager_py, n_isos_html, n_server_py, n_config_json,
                       n_gitignore, n_README_md, n_LICENSE, n_index_html, n_monitor_py},
     ignore_extensions |-> {x_pyc, x_log, x_tmp, x_swp},
     show_hidden |-> FALSE,
     sort_by |-> "name",
     sort_reverse |-> FALSE]

(* config.json on disk: absent, unparsable, or a JSON object holding some  *)
(* of the keys.                                                            *)
NoData == [k \in {} |-> FALSE]

NoFile == [exists |-> FALSE, valid |-> FALSE, data |-> NoData]

BadFile == [exists |-> TRUE, valid |-> FALSE, data |-> NoData]

JsonFile(data) == [exists |-> TRUE, valid |-> TRUE, data |-> data]

(* self.__dict__.update(data): every key of data replaces the attribute.   *)
load_config(file) ==
    IF file.exists /\ file.valid
    THEN [k \in DOMAIN DefaultConfig |->
             IF k \in DOMAIN file.data THEN file.data[k] ELSE DefaultConfig[k]]
    ELSE DefaultConfig

----------------------------------------------------------------------------
(* FileManager.should_ignore                                               *)

should_ignore(cfg, item) ==
    IF ~cfg.show_hidden /\ startswith(item.name, <<".">>) THEN TRUE
    ELSE IF is_dir(item) /\ item.name \in cfg.ignore_folders THEN TRUE
    ELSE IF is_file(item) /\ item.name \in cfg.ignore_files THEN TRUE
    ELSE IF is_file(item) /\ lower(suffix(item.name)) \in cfg.ignore_extensions THEN TRUE
    ELSE FALSE

----------------------------------------------------------------------------
(* FileManager.get_directory_listing                                       *)

(* item.rglob('*'): every descendant of the directory, at any depth.       *)
RECURSIVE walk(_)
walk(children) ==
    IF children = <<>> THEN <<>>
    ELSE <<Head(children)>> \o walk(Head(children).children) \o walk(Tail(children))

rglob(item) == walk(item.children)

counted(cfg, f) == is_file(f) /\ ~should_ignore(cfg, f)

file_count(cfg, item) == Len(SelectSeq(rglob(item), LAMBDA f : counted(cfg, f)))

file_info(path, item) ==
    [name |-> item.name,
     path |-> path \o <<item.name>>,
     is_dir |-> is_dir(item),
     size |-> IF is_file(item) THEN item.size ELSE 0,
     modified |-> item.mtime]

folder_info(cfg, path, item) ==
    [name |-> item.name,
     path |-> path \o <<item.name>>,
     is_dir |-> is_dir(item),
     size |-> IF is_file(item) THEN item.size ELSE 0,
     modified |-> item.mtime,
     file_count |-> file_count(cfg, item)]

EmptyItems == [error |-> "none", folders |-> <<>>, files |-> <<>>]

Raised(exc) == [error |-> exc, folders |-> <<>>, files |-> <<>>]

(* The loop over path.iterdir(): ignored items are skipped, item.stat()    *)
(* raises on a dangling symlink, directories go to 'folders' and           *)
(* everything else to 'files'.                                             *)
RECURSIVE scan_unfiltered_dirs(_, _, _, _)
scan_unfiltered_dirs(cfg, path, children, items) ==
    IF children = <<>> THEN items
    ELSE LET item == Head(children) IN
         IF is_file(item) /\ should_ignore(cfg, item)
         THEN scan_unfiltered_dirs(cfg, path, Tail(children), items)
         ELSE IF item.kind = "broken" THEN Raised("FileNotFoundError")
         ELSE IF is_dir(item)
              THEN scan_unfiltered_dirs(cfg, path, Tail(children),
                        [items EXCEPT !.folders = Append(@, folder_info(cfg, path, item))])
              ELSE scan_unfiltered_dirs(cfg, path, Tail(children),
                        [items EXCEPT !.files = Append(@, file_info(path, item))])

RECURSIVE scan(_, _, _, _)
scan(cfg, path, children, items) ==
    IF children = <<>> THEN items
    ELSE LET item == Head(children) IN
         IF should_ignore(cfg, item) THEN scan(cfg, path, Tail(children), items)
         ELSE IF item.kind = "broken" THEN Raised("FileNotFoundError")
         ELSE IF is_dir(item)
              THEN scan(cfg, path, Tail(children),
                        [items EXCEPT !.folders = Append(@, folder_info(cfg, path, item))])
              ELSE scan(cfg, path, Tail(children),
                        [items EXCEPT !.files = Append(@, file_info(path, item))])

(* The sort keys of the three lambdas.                                     *)
KeyLess(by, a, b) ==
    IF by = "name" THEN StrLess(lower(a.name), lower(b.name))
    ELSE IF by = "size" THEN a.size < b.size
    ELSE a.modified < b.modified

(* list.sort is stable: an element goes behind every element whose key is  *)
(* not greater than its own.                                               *)
RECURSIVE insert(_, _, _)
insert(by, x, s) ==
    IF s = <<>> THEN <<x>>
    ELSE IF KeyLess(by, x, Head(s)) THEN <<x>> \o s
    ELSE <<Head(s)>> \o insert(by, x, Tail(s))

RECURSIVE stable_sort(_, _)
stable_sort(by, s) ==
    IF s = <<>> THEN <<>>
    ELSE insert(by, s[Len(s)], stable_sort(by, SubSeq(s, 1, Len(s) - 1)))

(* list.sort(key=..., reverse=r): with reverse the list is reversed,       *)
(* sorted and reversed again, which keeps equal keys in their first order. *)
list_sort_reversed_after(by, reverse, s) ==
    IF reverse THEN Reverse(stable_sort(by, s)) ELSE stable_sort(by, s)

list_sort(by, reverse, s) ==
    IF reverse THEN Reverse(stable_sort(by, Reverse(s))) ELSE stable_sort(by, s)

sort_items_folders_too(cfg, items) ==
    IF cfg.sort_by = "size"
    THEN [items EXCEPT !.folders = list_sort("name", cfg.sort_reverse, @),
                       !.files = list_sort("size", cfg.sort_reverse, @)]
    ELSE items

sort_items(cfg, items) ==
    IF cfg.sort_by = "name"
    THEN [items EXCEPT !.folders = list_sort("name", cfg.sort_reverse, @),
                       !.files = list_sort("name", cfg.sort_reverse, @)]
    ELSE IF cfg.sort_by = "size"
    THEN [items EXCEPT !.files = list_sort("size", cfg.sort_reverse, @)]
    ELSE IF cfg.sort_by = "date"
    THEN [items EXCEPT !.folders = list_sort("date", cfg.sort_reverse, @),
                       !.files = list_sort("date", cfg.sort_reverse, @)]
    ELSE items

(* The entry a relative path names below the served root, or NoEntry.      *)
NoEntry == Other(<<>>, "absent", 0)

RECURSIVE lookup(_, _)
lookup(dir, comps) ==
    IF comps = <<>> THEN dir
    ELSE IF \E i \in 1..Len(dir.children) : dir.children[i].name = Head(comps)
    THEN lookup(dir.children[CHOOSE i \in 1..Len(dir.children) :
                                 dir.children[i].name = Head(comps)], Tail(comps))
    ELSE NoEntry

RootDir(tree) == Dir(<<>>, 0, tree.children)

(* get_directory_listing(path): iterdir() raises FileNotFoundError or      *)
(* NotADirectoryError when the directory cannot be found, PermissionError  *)
(* when it cannot be read; only PermissionError is caught.                 *)
get_directory_listing(cfg, tree, path) ==
    LET dir == lookup(RootDir(tree), path) IN
    IF tree.access = "missing" \/ dir.kind \in {"absent", "broken"} THEN Raised("FileNotFoundError")
    ELSE IF dir.kind # "dir" THEN Raised("NotADirectoryError")
    ELSE IF tree.access = "denied" THEN EmptyItems
    ELSE LET items == scan(cfg, path, dir.children, EmptyItems) IN
         IF items.error # "none" THEN items ELSE sort_items(cfg, items)

----------------------------------------------------------------------------
(* The static-file transfer of http.server.SimpleHTTPRequestHandler that   *)
(* do_GET falls through to (super().do_GET()).                             *)

HexDigits == {"0", "1", "2", "3", "4", "5", "6", "7", "8", "9",
              "A", "B", "C", "D", "E", "F", "a", "b", "c", "d", "e", "f"}

hexval(c) == IF Ord(c) <= 57 THEN Ord(c) - 48
             ELSE IF Ord(c) <= 70 THEN Ord(c) - 55
             ELSE Ord(c) - 87

(* urllib.parse.unquote, for escapes of printable ASCII characters.        *)
RECURSIVE unquote(_)
unquote(s) ==
    IF s = <<>> THEN <<>>
    ELSE IF /\ Head(s) = "%" /\ Len(s) >= 3 /\ s[2] \in HexDigits /\ s[3] \in HexDigits
            /\ 16 * hexval(s[2]) + hexval(s[3]) \in 32..126
         THEN <<Chr(16 * hexval(s[2]) + hexval(s[3]))>> \o unquote(SubSeq(s, 4, Len(s)))
         ELSE <<Head(s)>> \o unquote(Tail(s))

(* posixpath.normpath on an absolute path, as a list of components: empty  *)
(* and '.' components go, '..' removes the component before it.            *)
RECURSIVE normpath(_, _)
normpath(comps, new) ==
    IF comps = <<>> THEN new
    ELSE IF Head(comps) \in {<<>>, <<".">>} THEN normpath(Tail(comps), new)
    ELSE IF Head(comps) # <<".", ".">> THEN normpath(Tail(comps), Append(new, Head(comps)))
    ELSE IF new # <<>> THEN normpath(Tail(comps), SubSeq(new, 1, Len(new) - 1))
    ELSE normpath(Tail(comps), new)

(* urlsplit(path).path: the request target without query and fragment.     *)
url_path(path) == before(before(path, "?"), "#")

(* translate_path: the components, below the served directory, of the file *)
(* a request target names.                                                 *)
translate_path(path) == normpath(split(unquote(url_path(path)), "/"), <<>>)

NoResponse ==
    [outcome |-> "none", status |-> 0, scanned |-> <<>>, current |-> <<>>,
     folders |-> <<>>, files |-> <<>>, served |-> <<>>]

Respond(outcome, status) == [NoResponse EXCEPT !.outcome = outcome, !.status = status]

has_file(dir, name) ==
    \E i \in 1..Len(dir.children) :
        dir.children[i].name = name /\ dir.children[i].kind = "file"

(* SimpleHTTPRequestHandler.send_head: a directory is redirected to its    *)
(* slash form or answered with its index page or the plain listing; a file *)
(* is streamed; anything that cannot be opened is 404.                     *)
send_head(tree, path) ==
    LET comps == translate_path(path)
        target == IF tree.access = "missing" THEN NoEntry ELSE lookup(RootDir(tree), comps)
    IN  IF target.kind = "dir"
        THEN IF ~endswith(url_path(path), <<"/">>) THEN Respond("Redirect", 301)
             ELSE IF has_file(target, n_index_html)
                  THEN [Respond("StreamFile", 200) EXCEPT !.served = comps \o <<n_index_html>>]
             ELSE IF has_file(target, n_index_htm)
                  THEN [Respond("StreamFile", 200) EXCEPT !.served = comps \o <<n_index_htm>>]
             ELSE IF comps = <<>> /\ tree.access = "denied" THEN Respond("NotFound", 404)
             ELSE Respond("PlainListing", 200)
        ELSE IF target.kind # "file" \/ endswith(url_path(path), <<"/">>)
             THEN Respond("NotFound", 404)
             ELSE [Respond("StreamFile", 200) EXCEPT !.served = comps]

----------------------------------------------------------------------------
(* ArchWayHTTPHandler.do_GET                                               *)

do_GET_one_slash(cfg, tree, path) ==
    LET requested_path == Tail(path) IN
    IF requested_path \in cfg.ignore_files THEN Respond("Forbidden", 403)
    ELSE IF path = <<"/">> \/ endswith(path, <<"/">>)
    THEN LET items == get_directory_listing(cfg, tree, <<>>) IN
         IF items.error # "none" THEN Respond(items.error, 0)
         ELSE [Respond("RenderListing", 200) EXCEPT
                   !.scanned = <<>>, !.current = strip(path, "/"),
                   !.folders = items.folders, !.files = items.files]
    ELSE send_head(tree, path)

do_GET(cfg, tree, path) ==
    LET requested_path == lstrip(path, "/") IN
    IF requested_path \in cfg.ignore_files THEN Respond("Forbidden", 403)
    ELSE IF path = <<"/">> \/ endswith(path, <<"/">>)
    THEN LET items == get_directory_listing(cfg, tree, <<>>) IN
         IF items.error # "none" THEN Respond(items.error, 0)
         ELSE [Respond("RenderListing", 200) EXCEPT
                   !.scanned = <<>>, !.current = strip(path, "/"),
                   !.folders = items.folders, !.files = items.files]
    ELSE send_head(tree, path)

----------------------------------------------------------------------------
(* The served directory and the configuration files of the model.          *)

MaxChildren == 4

docs == Dir(n_docs, 5, <<File(n_a_txt, 1, 1), File(n_b_log, 1, 2),
                         Dir(n_css, 3, <<File(n_app_js, 1, 1)>>),
                         Dir(n_git, 4, <<File(n_HEAD, 1, 1)>>)>>)

Album == Dir(n_Album, 2, <<File(n_a_txt, 2, 1), File(n_LICENSE, 1, 1)>>)

css == Dir(n_css, 1, <<File(n_app_js, 1, 1)>>)

Entries ==
    {File(n_apple, 2, 3), File(n_APPLE, 1, 1), File(n_Banana, 3, 2), File(n_LICENSE, 1, 4),
     File(n_x_LOG, 1, 5), File(n_env, 1, 6), Other(n_y_log, "other", 6),
     Other(n_gone, "broken", 7), docs, Album}

(* Every enumeration order of at most MaxChildren entries of distinct      *)
(* names.                                                                  *)
Listings ==
    {s \in UNION {[1..n -> Entries] : n \in 0..MaxChildren} :
        \A i, j \in 1..Len(s) : i # j => s[i].name # s[j].name}

SampleTrees ==
    {<<>>,
     <<File(n_apple, 2, 3), docs, File(n_LICENSE, 1, 4), css>>,
     <<File(n_Banana, 3, 2), Album, File(n_APPLE, 1, 1), Dir(n_LICENSE, 1, <<>>)>>,
     <<File(n_LICENSE, 1, 4), Other(n_gone, "broken", 7)>>}

ConfigFiles ==
    {NoFile, BadFile,
     JsonFile([sort_by |-> "size"]),
     JsonFile([sort_by |-> "size", sort_reverse |-> TRUE]),
     JsonFile([sort_reverse |-> TRUE]),
     JsonFile([sort_by |-> "date", show_hidden |-> TRUE]),
     JsonFile([ignore_files |-> {n_apple, n_docs \o <<"/">>}, ignore_folders |-> {n_LICENSE, n_Album},
               ignore_extensions |-> {x_LOG}])}

RedirectFile == JsonFile([base_folder |-> "elsewhere"])

Slash == <<"/">>

ListingPaths == {Slash, Slash \o n_docs \o Slash}

Paths ==
    ListingPaths \cup
    {Slash \o n_LICENSE, Slash \o n_LICENSE \o <<"?", "x">>, <<"/", ".", "/">> \o n_LICENSE,
     <<"/", "/">> \o n_LICENSE, <<"/", "%", "4", "C">> \o Tail(n_LICENSE),
     Slash \o n_LICENSE \o Slash, Slash \o n_apple, Slash \o n_missing_txt,
     Slash \o n_css \o Slash \o n_app_js, Slash \o n_docs}

(* The directory the handler serves: base_folder when it is the working    *)
(* directory, and no directory at all when config.json names a place that  *)
(* does not exist.                                                         *)
Served(cfg, tree) ==
    IF cfg.base_folder = "cwd" THEN tree ELSE [access |-> "missing", children |-> <<>>]

----------------------------------------------------------------------------
(* The server.                                                             *)

(* main(): Config() once, then serve_forever().                            *)
Started ==
    /\ startupConfig = load_config(cfgFile)
    /\ config = startupConfig
    /\ request = <<>>
    /\ response = NoResponse

Init ==
    /\ fs \in [access : {"ok", "denied"}, children : SampleTrees]
    /\ cfgFile \in ConfigFiles \cup {RedirectFile}
    /\ Started

InitScan ==
    /\ fs \in [access : {"ok"}, children : Listings]
    /\ cfgFile \in ConfigFiles \ {BadFile}
    /\ Started

(* One GET request: ArchWayHTTPHandler.__init__ builds a Config, which     *)
(* reads config.json, and do_GET answers with it.                          *)
Request(p) ==
    /\ config' = load_config(cfgFile)
    /\ request' = p
    /\ response' = do_GET(config', Served(config', fs), p)
    /\ UNCHANGED <<fs, cfgFile, startupConfig>>

(* The operator of the machine writes or removes config.json while the     *)
(* server runs.                                                            *)
WriteConfig(file) ==
    /\ file # cfgFile
    /\ cfgFile' = file
    /\ UNCHANGED <<fs, startupConfig, config, request, response>>

DeleteConfig ==
    /\ cfgFile.exists
    /\ cfgFile' = NoFile
    /\ UNCHANGED <<fs, startupConfig, config, request, response>>

Next ==
    \/ \E p \in Paths : Request(p)
    \/ \E file \in (ConfigFiles \cup {RedirectFile}) \ {NoFile} : WriteConfig(file)
    \/ DeleteConfig

NextScan == \E p \in ListingPaths : Request(p)

Spec == Init /\ [][Next]_vars

SpecScan == InitScan /\ [][NextScan]_vars

----------------------------------------------------------------------------
(* Vocabulary of the properties.                                           *)

Answered == response.outcome # "none"

names(s) == [i \in 1..Len(s) |-> s[i].name]

(* The children of the served root that the scan of the last request kept, *)
(* in enumeration order.                                                   *)
Kept == SelectSeq(fs.children, LAMBDA c : ~should_ignore(config, c))

KeptFolders == SelectSeq(Kept, LAMBDA c : is_dir(c))

KeptFiles == SelectSeq(Kept, LAMBDA c : ~is_dir(c))

(* The position of a name in the enumeration of the served root.           *)
Place(name) == CHOOSE i \in 1..Len(fs.children) : fs.children[i].name = name

IsPermutation(s, t) ==
    /\ Len(s) = Len(t)
    /\ Range(s) = Range(t)
    /\ \A i, j \in 1..Len(s) : i # j => s[i] # s[j]

(* The directory a listing request names: the root for '/', <dir> for      *)
(* '/<dir>/'.                                                              *)
RequestedDir(p) == IF strip(p, "/") = <<>> THEN <<>> ELSE split(strip(p, "/"), "/")

----------------------------------------------------------------------------
(* C1: a request whose path, stripped of its leading '/' characters, is an *)
(* entry of ignore_files is answered 403 Forbidden, and with neither the   *)
(* generated listing nor a file; the rule comes before the two others and  *)
(* looks neither at the file system nor at ignore_folders.                 *)
C1_IgnoredNameIsForbidden ==
    (Answered /\ lstrip(request, "/") \in config.ignore_files)
        => (response.outcome = "Forbidden" /\ response.status = 403)

(* 403 for //LICENSE in an empty served directory.                         *)
C1_Witness ==
    /\ response.outcome = "Forbidden"
    /\ request = <<"/", "/">> \o n_LICENSE
    /\ fs.children = <<>>

(* C2: no request is answered with the content of a file that lies         *)
(* directly under the served root and whose name is in ignore_files.       *)
C2_IgnoredFileNeverStreamed ==
    ~(/\ response.outcome = "StreamFile"
      /\ Len(response.served) = 1
      /\ response.served[1] \in config.ignore_files)

(* C3: a request for '/' or for a path ending in '/', not stopped by the   *)
(* ignore_files rule, is answered 200 with the generated page, and the     *)
(* listing on it is the scan of the directory the path names, whenever     *)
(* that directory can be scanned.                                          *)
C3_ListingOfRequestedDirectory ==
    LET named == get_directory_listing(config, Served(config, fs), RequestedDir(request)) IN
    (/\ Answered
     /\ endswith(request, <<"/">>)
     /\ lstrip(request, "/") \notin config.ignore_files
     /\ fs.access = "ok"
     /\ named.error = "none")
        => /\ response.outcome = "RenderListing"
           /\ response.status = 200
           /\ response.scanned = RequestedDir(request)
           /\ response.folders = named.folders
           /\ response.files = named.files

(* C4: the listing of a directory holds exactly the children that          *)
(* should_ignore lets through, each of them once, in 'folders' or in       *)
(* 'files'.                                                                *)
C4_ListingIsTheVisibleChildren ==
    (response.outcome = "RenderListing" /\ fs.access = "ok")
        => LET all == names(response.folders) \o names(response.files) IN
           /\ \A i \in 1..Len(all) :
                 \E k \in 1..Len(fs.children) :
                     fs.children[k].name = all[i] /\ ~should_ignore(config, fs.children[k])
           /\ \A i, j \in 1..Len(all) : i # j => all[i] # all[j]
           /\ Range(all) = {fs.children[k].name : k \in
                               {n \in 1..Len(fs.children) : ~should_ignore(config, fs.children[n])}}

(* A directory whose children are an ignored file name, an ignored         *)
(* extension and a hidden file, listed as empty.                           *)
C4_Witness ==
    /\ response.outcome = "RenderListing"
    /\ names(fs.children) = <<n_LICENSE, n_x_LOG, n_env>>
    /\ response.folders = <<>>
    /\ response.files = <<>>

(* C5: should_ignore is true exactly when the name is hidden and hidden    *)
(* entries are not shown, or the entry is a directory named in             *)
(* ignore_folders, or it is not a directory and is named in ignore_files,  *)
(* or it is not a directory and its lower-cased extension is in            *)
(* ignore_extensions.                                                      *)
C5_IgnoreRule ==
    response.outcome = "RenderListing"
        => \A k \in 1..Len(fs.children) :
               LET item == fs.children[k] IN
               should_ignore(config, item) <=>
                   \/ startswith(item.name, <<".">>) /\ ~config.show_hidden
                   \/ is_dir(item) /\ item.name \in config.ignore_folders
                   \/ ~is_dir(item) /\ item.name \in config.ignore_files
                   \/ ~is_dir(item) /\ lower(suffix(item.name)) \in config.ignore_extensions

(* C6: file_count of a listed folder is the number of files of its subtree *)
(* that remain when should_ignore is applied to every descendant, so that  *)
(* nothing below an ignored or hidden directory is counted.                *)
RECURSIVE visible_files(_, _)
visible_files(cfg, children) ==
    IF children = <<>> THEN 0
    ELSE LET c == Head(children) IN
         (IF should_ignore(cfg, c) THEN 0
          ELSE IF is_file(c) THEN 1
          ELSE visible_files(cfg, c.children))
         + visible_files(cfg, Tail(children))

C6_FileCountIsVisibleFiles ==
    response.outcome = "RenderListing"
        => \A i \in 1..Len(response.folders) :
               response.folders[i].file_count =
                   visible_files(config, fs.children[Place(response.folders[i].name)].children)

(* C7: when the directory to list cannot be listed, for lack of permission *)
(* or because it does not exist, the request still ends with a listing,    *)
(* and that listing is empty.                                              *)
C7_UnlistableDirectoryListsEmpty ==
    (/\ Answered
     /\ endswith(request, <<"/">>)
     /\ lstrip(request, "/") \notin config.ignore_files
     /\ Served(config, fs).access # "ok")
        => /\ response.outcome = "RenderListing"
           /\ response.folders = <<>>
           /\ response.files = <<>>

(* C8: sorted by size, 'folders' stays in enumeration order and 'files' is *)
(* the visible files in order of size, rising without sort_reverse and     *)
(* falling with it.                                                        *)
C8_SizeSortLeavesFolders ==
    (response.outcome = "RenderListing" /\ config.sort_by = "size")
        => /\ names(response.folders) = names(KeptFolders)
           /\ IsPermutation(names(response.files), names(KeptFiles))
           /\ \A i, j \in 1..Len(response.files) :
                  i < j => IF config.sort_reverse
                           THEN response.files[i].size >= response.files[j].size
                           ELSE response.files[i].size <= response.files[j].size

(* Falling sizes, two folders listed as enumerated, against their names.   *)
C8_Witness ==
    /\ response.outcome = "RenderListing"
    /\ config.sort_by = "size"
    /\ config.sort_reverse
    /\ names(response.folders) = <<n_docs, n_Album>>
    /\ names(response.files) = <<n_apple, n_APPLE>>
    /\ names(KeptFiles) = <<n_APPLE, n_apple>>

(* C9: sorted by name, 'folders' and 'files' are the visible entries in    *)
(* order of lower-cased name, rising without sort_reverse and falling with *)
(* it, and entries of equal lower-cased name stay in enumeration order.    *)
NameSorted(s, kept) ==
    /\ IsPermutation(names(s), names(kept))
    /\ \A i, j \in 1..Len(s) :
           i < j => /\ IF config.sort_reverse
                       THEN ~StrLess(lower(s[i].name), lower(s[j].name))
                       ELSE ~StrLess(lower(s[j].name), lower(s[i].name))
                    /\ lower(s[i].name) = lower(s[j].name) => Place(s[i].name) < Place(s[j].name)

C9_NameSortIsStable ==
    (response.outcome = "RenderListing" /\ config.sort_by = "name")
        => NameSorted(response.folders, KeptFolders) /\ NameSorted(response.files, KeptFiles)

(* Falling names with a tie: APPLE was enumerated before apple and stays   *)
(* before it, behind Banana.                                               *)
C9_Witness ==
    /\ response.outcome = "RenderListing"
    /\ config.sort_by = "name"
    /\ config.sort_reverse
    /\ names(KeptFiles) = <<n_APPLE, n_apple, n_Banana>>
    /\ names(response.files) = <<n_Banana, n_APPLE, n_apple>>

(* C10: every request is served with the policy and sort settings that     *)
(* were loaded at startup.                                                 *)
C10_PolicyFixedAtStartup == Answered => config = startupConfig

====
